---- MODULE Spec2Model ----
(***************************************************************************)
(* A model of reynir_correct/wrappers.py: the quote primitive, the         *)
(* sentence_stream generator, the annotation splicing loop of              *)
(* check_grammar and the per-format output accumulation of check_grammar   *)
(* and check_spelling (reached through check_errors).                      *)
(*                                                                         *)
(* The specifications share the variables below; each one drives one       *)
(* part of the module and leaves the variables of the other parts idle:    *)
(*   SpecQuote   quote(s) on bounded strings                               *)
(*   SpecStream  sentence_stream over a bounded token stream               *)
(*   SpecSplice  the sort + reverse-order splicing loop on one sentence    *)
(*   Spec        check_errors on a document, sentence by sentence          *)
(*   SpecM2      check_grammar on a document in the m2 format              *)
(***************************************************************************)
EXTENDS Integers, Sequences, FiniteSets, TLC

VARIABLES
    \* quote
    s,              \* the argument of quote (a sequence of characters, or None)
    quoted,         \* the value returned by quote, NotYet before the call
    \* sentence_stream
    stream,         \* the tokens errtokenize will produce, in order
    pos,            \* number of tokens already pulled from errtokenize
    curr_sent,      \* the sentence accumulator list
    yielded,        \* the sentences yielded so far, in yield order
    ss_pc,          \* "idle" | "iter" | "done": position of the generator
    \* splicing loop of check_grammar (text format)
    toklist,        \* the sentence token list the loop works on
    a,              \* the annotation list of the checked sentence
    arev,           \* the descending-sorted copy of a
    cleantoklist,   \* the working copy of toklist
    applied,        \* codes of the annotations taken from arev so far, in order
    sp_pc,          \* "idle" | "sort" | "loop" | "done"
    \* check_errors / check_grammar / check_spelling
    options,        \* the options dictionary of the call
    doc,            \* the sentences pulled from sentence_stream so far
    offset,         \* running character offset
    accumul,        \* accumul (check_grammar) or unisum (check_spelling)
    annlist,        \* buffered annotation display strings
    accumstr,       \* the returned string, as a sequence of atoms
    pc              \* "idle" | "loop" | "done"

quoteVars  == <<s, quoted>>
streamVars == <<stream, pos, curr_sent, yielded, ss_pc>>
spliceVars == <<toklist, a, arev, cleantoklist, applied, sp_pc>>
docVars    == <<options, doc, offset, accumul, annlist, accumstr, pc>>
vars       == <<s, quoted, stream, pos, curr_sent, yielded, ss_pc,
                toklist, a, arev, cleantoklist, applied, sp_pc,
                options, doc, offset, accumul, annlist, accumstr, pc>>

(***************************************************************************)
(* Bounds of the model.                                                    *)
(***************************************************************************)
MaxStrLen == 4      \* longest argument of quote
MaxTokens == 5      \* longest token stream given to sentence_stream
MaxWords  == 3      \* most word tokens in a spliced sentence
MaxAnns   == 2      \* most annotations on a spliced sentence
MaxSents  == 2      \* most sentences in a checked document
MaxDocWords == 2    \* most word tokens in a sentence of a document
MaxDocAnns  == 2    \* most annotations on a sentence of a document

(***************************************************************************)
(* Python values.                                                          *)
(***************************************************************************)
\* Python's None where a text (str) is expected; no text of the model equals it.
None == "<None>"
\* Python's None where a character sequence is expected.
NoneStr == <<None>>

RECURSIVE Concat(_)
\* The concatenation of a sequence of sequences.
Concat(ss) == IF ss = <<>> THEN <<>> ELSE Head(ss) \o Concat(Tail(ss))

\* The sequences over S of length 0..n.
SeqsUpTo(S, n) == UNION {[1..k -> S] : k \in 0..n}

\* sep.join(units): the units, each a sequence of atoms, separated by sep.
RECURSIVE Join(_, _)
Join(sep, units) ==
    IF units = <<>> THEN <<>>
    ELSE IF Len(units) = 1 THEN units[1]
    ELSE units[1] \o <<sep>> \o Join(sep, Tail(units))

(***************************************************************************)
(* quote (wrappers.py 140-145).  A string is a sequence of characters over *)
(* the alphabet Chars: backslash, double quote and an ordinary character.  *)
(***************************************************************************)
BS == "\\"
DQ == "\""
Chars == {BS, DQ, "a"}
Strings == SeqsUpTo(Chars, MaxStrLen)

\* str.replace(old, new) for a one-character old and a string new.
RECURSIVE Replace(_, _, _)
Replace(str, old, new) ==
    IF str = <<>> THEN <<>>
    ELSE (IF Head(str) = old THEN new ELSE <<Head(str)>>)
         \o Replace(Tail(str), old, new)

\* A plausible slip: the double quotes are escaped before the backslashes.
quoteQuotesFirst(str) ==
    IF str = NoneStr \/ str = <<>> THEN <<DQ, DQ>>
    ELSE <<DQ>> \o Replace(Replace(str, DQ, <<BS, DQ>>), BS, <<BS, BS>>) \o <<DQ>>

quote(str) ==
    IF str = NoneStr \/ str = <<>> THEN <<DQ, DQ>>
    ELSE <<DQ>> \o Replace(Replace(str, BS, <<BS, BS>>), DQ, <<BS, DQ>>) \o <<DQ>>

NotYet == <<"<not called>">>

IdleQuote == s = <<>> /\ quoted = NotYet

InitQuoteVars == s \in Strings \cup {NoneStr} /\ quoted = NotYet

\* The call quote(s).
CallQuote ==
    /\ quoted = NotYet
    /\ quoted' = quote(s)
    /\ UNCHANGED <<s, streamVars, spliceVars, docVars>>

(***************************************************************************)
(* sentence_stream (wrappers.py 304-320).  A token is a record with an id  *)
(* (the identity of the token object) and a kind.                          *)
(***************************************************************************)
\* TOK.END: the kinds that end a sentence or a paragraph.
END == {"S_END", "P_END"}
StreamKinds == {"S_BEGIN", "WORD"} \cup END

\* The token streams: the i-th token produced has id i.
Streams ==
    {[i \in 1..Len(ks) |-> [id |-> i, kind |-> ks[i]]] :
        ks \in SeqsUpTo(StreamKinds, MaxTokens)}

IdleStream ==
    stream = <<>> /\ pos = 0 /\ curr_sent = <<>> /\ yielded = <<>> /\ ss_pc = "idle"

InitStreamVars ==
    stream \in Streams /\ pos = 0 /\ curr_sent = <<>> /\ yielded = <<>> /\ ss_pc = "iter"

\* A plausible slip: the sentence is yielded before the terminator is appended.
NextTokenYieldFirst ==
    /\ ss_pc = "iter" /\ pos < Len(stream)
    /\ pos' = pos + 1
    /\ LET t == stream[pos + 1] IN
         IF t.kind \in END
         THEN yielded' = Append(yielded, curr_sent) /\ curr_sent' = <<t>>
         ELSE curr_sent' = Append(curr_sent, t) /\ UNCHANGED yielded
    /\ UNCHANGED <<stream, ss_pc, quoteVars, spliceVars, docVars>>

\* One iteration of the for loop: pull a token, append it, yield on a terminator.
NextToken ==
    /\ ss_pc = "iter" /\ pos < Len(stream)
    /\ pos' = pos + 1
    /\ LET t == stream[pos + 1]
           sent == Append(curr_sent, t) IN
         IF t.kind \in END
         THEN yielded' = Append(yielded, sent) /\ curr_sent' = <<>>
         ELSE curr_sent' = sent /\ UNCHANGED yielded
    /\ UNCHANGED <<stream, ss_pc, quoteVars, spliceVars, docVars>>

\* The token source is exhausted: yield what is left in the accumulator.
EndOfStream ==
    /\ ss_pc = "iter" /\ pos = Len(stream)
    /\ yielded' = IF curr_sent # <<>> THEN Append(yielded, curr_sent) ELSE yielded
    /\ ss_pc' = "done"
    /\ UNCHANGED <<stream, pos, curr_sent, quoteVars, spliceVars, docVars>>

(***************************************************************************)
(* Tokens and annotations of a checked sentence.  A token is a record      *)
(* [id, kind, txt, original]: id is the identity of the CorrectToken       *)
(* object (its index in the sentence list), txt its current text and       *)
(* original its source substring.  An annotation is a record               *)
(* [start, end, code, suggest]; suggest is None or a text.                 *)
(***************************************************************************)
\* The text of the i-th word of a generated sentence: i characters long.
RECURSIVE WordText(_)
WordText(i) == IF i = 0 THEN "" ELSE "w" \o WordText(i - 1)

Tok(i, k, x) == [id |-> i, kind |-> k, txt |-> x, original |-> x]

\* The token list [S_BEGIN, word 1, ..., word n, S_END] as errtokenize produces it.
Sentence(n) ==
    [i \in 1..(n + 2) |->
        IF i = 1 THEN Tok(0, "S_BEGIN", "")
        ELSE IF i = n + 2 THEN Tok(n + 1, "S_END", "")
        ELSE Tok(i - 1, "WORD", WordText(i - 1))]

\* [BEGIN, "Ég", "fer", "til", "Spánar", END]
ScenarioWords == <<"Ég", "fer", "til", "Spánar">>
ScenarioSentence ==
    [i \in 1..6 |->
        IF i = 1 THEN Tok(0, "S_BEGIN", "")
        ELSE IF i = 6 THEN Tok(5, "S_END", "")
        ELSE Tok(i - 1, "WORD", ScenarioWords[i - 1])]
ScenarioAnnotations == <<[start |-> 2, end |-> 2, code |-> "X", suggest |-> "Spáni"]>>
\* The same annotation placed on the word "Spánar".
ScenarioAnnotationsOnSpanar == <<[start |-> 3, end |-> 3, code |-> "X", suggest |-> "Spáni"]>>

\* The suggestions the checker attaches: none, the empty text, a replacement.
Suggests == {None, "", "x"}

\* The i-th annotation the checker returns carries code AnnCode(i).
AnnCode(i) == "A" \o ToString(i)

\* The annotation lists of at most m annotations whose spans lie within
\* the n words of a sentence, in any order the checker may return them.
AnnLists(n, m) ==
    LET Spans == {sp \in (0..(n - 1)) \X (0..(n - 1)) : sp[1] <= sp[2]}
    IN  {[i \in 1..Len(l) |->
            [start |-> l[i][1][1], end |-> l[i][1][2],
             code |-> AnnCode(i), suggest |-> l[i][2]]] :
         l \in SeqsUpTo(Spans \X Suggests, m)}

(***************************************************************************)
(* list.sort / sorted with key (ann.start, ann.end).  Python's sort is     *)
(* stable, and reverse=True keeps the original order of equal keys.        *)
(***************************************************************************)
\* (x.start, x.end) < (y.start, y.end)
KeyLess(x, y) == x.start < y.start \/ (x.start = y.start /\ x.end < y.end)

\* x sorts strictly before y
Before(x, y, reverse) == IF reverse THEN KeyLess(y, x) ELSE KeyLess(x, y)

\* Insert x into the sorted list l behind every element it does not precede.
RECURSIVE Insert(_, _, _)
Insert(x, l, reverse) ==
    IF l = <<>> THEN <<x>>
    ELSE IF Before(x, Head(l), reverse) THEN <<x>> \o l
    ELSE <<Head(l)>> \o Insert(x, Tail(l), reverse)

\* sorted(l, key=lambda ann: (ann.start, ann.end), reverse=reverse)
RECURSIVE sorted(_, _)
sorted(l, reverse) ==
    IF l = <<>> THEN <<>>
    ELSE Insert(l[Len(l)], sorted(SubSeq(l, 1, Len(l) - 1), reverse), reverse)

Reverse(l) == [i \in 1..Len(l) |-> l[Len(l) + 1 - i]]

(***************************************************************************)
(* The body of the splicing loop (wrappers.py 444-458).  Python index p    *)
(* of a list is index p + 1 of the sequence.                               *)
(***************************************************************************)
Min(x, y) == IF x < y THEN x ELSE y

\* del l[lo:hi] for 0 <= lo: the slice is clamped to the list.
DelSlice(l, lo, hi) ==
    LET from == Min(lo, Len(l))
        to   == Min(hi, Len(l))
    IN  IF from >= to THEN l
        ELSE SubSeq(l, 1, from) \o SubSeq(l, to + 1, Len(l))

\* tok.txt = x on the token object tok, seen through every list that holds it.
SetTxt(l, tokid, x) ==
    [i \in 1..Len(l) |-> IF l[i].id = tokid THEN [l[i] EXCEPT !.txt = x] ELSE l[i]]

\* A plausible slip: the +1 for the sentence-begin token is forgotten.
SpliceOneNoShift(ctl, xann) ==
    IF xann.suggest = None THEN ctl
    ELSE LET target == ctl[xann.start + 1]
             written == SetTxt(ctl, target.id, xann.suggest)
         IN  IF xann.end > xann.start
             THEN DelSlice(written, xann.start + 1, xann.end + 1)
             ELSE written

\* A plausible slip: the deleted slice starts at the overwritten token.
SpliceOneOffByOne(ctl, xann) ==
    IF xann.suggest = None THEN ctl
    ELSE LET target == ctl[xann.start + 2]
             written == SetTxt(ctl, target.id, xann.suggest)
         IN  IF xann.end > xann.start
             THEN DelSlice(written, xann.start + 1, xann.end + 1)
             ELSE written

\* A plausible slip: an empty suggestion is skipped like an absent one.
SpliceOneSkipEmpty(ctl, xann) ==
    IF xann.suggest = None \/ xann.suggest = "" THEN ctl
    ELSE LET target == ctl[xann.start + 2]
             written == SetTxt(ctl, target.id, xann.suggest)
         IN  IF xann.end > xann.start
             THEN DelSlice(written, xann.start + 2, xann.end + 2)
             ELSE written

\* One iteration on the working copy ctl for annotation xann.
SpliceOne(ctl, xann) ==
    IF xann.suggest = None THEN ctl
    ELSE LET target == ctl[xann.start + 2]
             written == SetTxt(ctl, target.id, xann.suggest)
         IN  IF xann.end > xann.start
             THEN DelSlice(written, xann.start + 2, xann.end + 2)
             ELSE written

\* The effect of the same iteration on the tokens of the original list.
Aliased(tl, ctl, xann) ==
    IF xann.suggest = None THEN tl
    ELSE SetTxt(tl, ctl[xann.start + 2].id, xann.suggest)

\* The whole loop over the annotations of l, front to back.
RECURSIVE Splice(_, _)
Splice(ctl, l) ==
    IF l = <<>> THEN ctl ELSE Splice(SpliceOne(ctl, Head(l)), Tail(l))

IdleSplice ==
    /\ toklist = <<>> /\ a = <<>> /\ arev = <<>> /\ cleantoklist = <<>>
    /\ applied = <<>> /\ sp_pc = "idle"

InitSpliceVars ==
    /\ \/ \E n \in 1..MaxWords :
            toklist = Sentence(n) /\ a \in AnnLists(n, MaxAnns)
       \/ /\ toklist = ScenarioSentence
          /\ a \in {ScenarioAnnotations, ScenarioAnnotationsOnSpanar}
    /\ arev = <<>> /\ cleantoklist = <<>> /\ applied = <<>> /\ sp_pc = "sort"

\* A plausible slip: arev is sorted by the start index alone.
RECURSIVE InsertByStart(_, _)
InsertByStart(x, l) ==
    IF l = <<>> THEN <<x>>
    ELSE IF x.start > Head(l).start THEN <<x>> \o l
    ELSE <<Head(l)>> \o InsertByStart(x, Tail(l))

RECURSIVE sortedByStart(_)
sortedByStart(l) ==
    IF l = <<>> THEN <<>>
    ELSE InsertByStart(l[Len(l)], sortedByStart(SubSeq(l, 1, Len(l) - 1)))

SortAnnotationsByStart ==
    /\ sp_pc = "sort"
    /\ a' = sorted(a, FALSE)
    /\ arev' = sortedByStart(a')
    /\ cleantoklist' = toklist
    /\ sp_pc' = "loop"
    /\ UNCHANGED <<toklist, applied, quoteVars, streamVars, docVars>>

\* a.sort(...); arev = sorted(a, ..., reverse=True); cleantoklist = toklist[:]
SortAnnotations ==
    /\ sp_pc = "sort"
    /\ a' = sorted(a, FALSE)
    /\ arev' = sorted(a', TRUE)
    /\ cleantoklist' = toklist
    /\ sp_pc' = "loop"
    /\ UNCHANGED <<toklist, applied, quoteVars, streamVars, docVars>>

\* One iteration of `for xann in arev`.
SpliceStep ==
    /\ sp_pc = "loop" /\ Len(applied) < Len(arev)
    /\ LET xann == arev[Len(applied) + 1] IN
         /\ cleantoklist' = SpliceOne(cleantoklist, xann)
         /\ toklist' = Aliased(toklist, cleantoklist, xann)
         /\ applied' = Append(applied, xann.code)
    /\ UNCHANGED <<a, arev, sp_pc, quoteVars, streamVars, docVars>>

\* The loop is over; cleantoklist goes to detokenize.
SpliceDone ==
    /\ sp_pc = "loop" /\ Len(applied) = Len(arev)
    /\ sp_pc' = "done"
    /\ UNCHANGED <<toklist, a, arev, cleantoklist, applied,
                   quoteVars, streamVars, docVars>>

(***************************************************************************)
(* check_errors, check_grammar and check_spelling on a document            *)
(* (wrappers.py 189-265, 387-530).  The sentences come one at a time from  *)
(* sentence_stream; the checker's result for each is an input.             *)
(*                                                                         *)
(* A string of the output is a sequence of atoms.  The atom SP is a space  *)
(* and NL a newline put there by join or by "\n" +; every other atom is a  *)
(* piece of text produced by detokenize, str, format or json_dumps, which  *)
(* holds no newline of its own.                                            *)
(***************************************************************************)
SP == [t |-> "space"]
NL == [t |-> "newline"]

\* options.get(key, default)
Get(opts, key, default) == IF key \in DOMAIN opts THEN opts[key] ELSE default

Formats == {"text", "json", "csv", "m2"}

\* The options dictionaries of the calls: print_all may be left out.
OptionDicts ==
    {[all_errors |-> ae, format |-> f, annotations |-> an] :
        ae \in BOOLEAN, f \in Formats, an \in BOOLEAN}
    \cup
    {[all_errors |-> ae, format |-> f, annotations |-> an, print_all |-> pa] :
        ae \in BOOLEAN, f \in Formats, an \in BOOLEAN, pa \in BOOLEAN}

\* The word tokens of the k-th sentence of a document differ from those of
\* every other sentence; word i is i + 2 characters long.
DocWordText(k, i) == "s" \o ToString(k) \o WordText(i)

\* The display string of the token error the spelling pass attaches.
ErrorOf(k, i) == "E" \o ToString(k) \o "." \o ToString(i)

\* The k-th sentence [S_BEGIN, word 1 .. word n, S_END]; the words in errs
\* carry a token error, the other tokens carry none ("").
DocSentence(k, n, errs) ==
    [i \in 1..(n + 2) |->
        IF i = 1 THEN [id |-> 0, kind |-> "S_BEGIN", txt |-> "", original |-> "", error |-> ""]
        ELSE IF i = n + 2
             THEN [id |-> n + 1, kind |-> "S_END", txt |-> "", original |-> "", error |-> ""]
        ELSE [id |-> i - 1, kind |-> "WORD", txt |-> DocWordText(k, i - 1),
              original |-> DocWordText(k, i - 1),
              error |-> IF (i - 1) \in errs THEN ErrorOf(k, i - 1) ELSE ""]]

\* The annotation lists the checker may return for the k-th sentence, of n
\* words: at most MaxDocAnns annotations in any order, each with a suggestion
\* and a code unique in the document, their spans pairwise disjoint as the
\* checker guarantees.
DocAnnLists(k, n) ==
    LET Spans == {sp \in (0..(n - 1)) \X (0..(n - 1)) : sp[1] <= sp[2]}
        Disjoint(l) ==
            \A i, j \in 1..Len(l) :
                i # j => (l[i][2] < l[j][1] \/ l[j][2] < l[i][1])
    IN  {[i \in 1..Len(l) |->
            [start |-> l[i][1], end |-> l[i][2],
             code |-> "A" \o ToString(k) \o "." \o ToString(i),
             suggest |-> "x"]] :
         l \in {m \in SeqsUpTo(Spans, MaxDocAnns) : Disjoint(m)}}

\* detokenize(l, normalize=True) and the other to_text functions: the text
\* built from the non-empty token texts, in order.
detokenize(l) ==
    [t |-> "text",
     v |-> LET texts == [i \in 1..Len(l) |-> l[i].txt]
           IN  SelectSeq(texts, LAMBDA x : x # "")]

\* len(t.original or t.txt or "")
TokLen(tok) == Len(IF tok.original # "" THEN tok.original ELSE tok.txt)

RECURSIVE TotalLen(_)
TotalLen(l) == IF l = <<>> THEN 0 ELSE TokLen(Head(l)) + TotalLen(Tail(l))

\* token_offsets after the loop of lines 428-431, keyed by the list index ix.
TokenOffsets(tl, off) ==
    [ix \in 0..(Len(tl) - 1) |-> off + TotalLen(SubSeq(tl, 1, ix))]

\* str(aann), str(t.error): the display string of an annotation or an error.
AnnStr(code) == [t |-> "ann", v |-> code]

\* "\n".join(lines) for a list of one-atom strings.
JoinLines(lines) == Join(NL, [i \in 1..Len(lines) |-> <<lines[i]>>])

\* The AnnDict list of the json format (lines 471-493); off is the running
\* offset after the sentence.
JsonAnnotations(anns, token_offsets, len_tokens, off) ==
    [i \in 1..Len(anns) |->
        [start |-> anns[i].start,
         end |-> anns[i].end,
         start_char |-> token_offsets[anns[i].start],
         end_char |-> (IF anns[i].end + 1 < len_tokens
                       THEN token_offsets[anns[i].end + 1]
                       ELSE off) - 1,
         code |-> anns[i].code,
         suggest |-> IF anns[i].suggest = None THEN "" ELSE anns[i].suggest]]

\* The csv lines of check_grammar, one per annotation (lines 503-513).
CsvUnits(anns) ==
    [i \in 1..Len(anns) |->
        <<[t |-> "csv", code |-> anns[i].code, suggest |-> anns[i].suggest,
           start |-> anns[i].start, end |-> anns[i].end]>>]

\* The "A ..." line of the m2 format for one annotation.
M2Edit(mann) ==
    [t |-> "A", start |-> mann.start, end |-> mann.end,
     code |-> mann.code, suggest |-> mann.suggest]

\* A plausible slip: the S line is built from the spliced token list.
M2UnitsCorrected(tl, anns) ==
    <<<<[t |-> "S", v |-> detokenize(Splice(tl, sorted(anns, TRUE))).v]>>>>
    \o [i \in 1..Len(anns) |-> <<M2Edit(anns[i])>>]
    \o << <<>> >>

\* The strings the m2 format appends for one sentence (lines 433-434, 514-522).
M2Units(tl, anns) ==
    <<<<[t |-> "S", v |-> detokenize(tl).v]>>>>
    \o [i \in 1..Len(anns) |-> <<M2Edit(anns[i])>>]
    \o << <<>> >>

InitDocVars ==
    /\ options \in OptionDicts
    /\ doc = <<>> /\ offset = 0 /\ accumul = <<>> /\ annlist = <<>>
    /\ accumstr = <<>> /\ pc = "loop"

\* One iteration of the loop of check_grammar over the sentence stream.
GrammarSentence ==
    /\ pc = "loop" /\ Get(options, "all_errors", TRUE)
    /\ Len(doc) < MaxSents
    /\ \E n \in 1..MaxDocWords, checked \in BOOLEAN :
       \E anns \in (IF checked THEN DocAnnLists(Len(doc) + 1, n) ELSE {<<>>}) :
         LET tl == DocSentence(Len(doc) + 1, n, {})
             len_tokens == Len(tl)
             token_offsets == TokenOffsets(tl, offset)
             newoffset == offset + TotalLen(tl)
             cleaned == detokenize(tl)
             asorted == sorted(anns, FALSE)
             format == Get(options, "format", "json")
             \* the text format
             txt == detokenize(Splice(tl, sorted(asorted, TRUE)))
             echo == Get(options, "annotations", FALSE)
             annlist1 == IF echo
                         THEN annlist \o [i \in 1..Len(asorted) |-> AnnStr(asorted[i].code)]
                         ELSE annlist
             flush == echo /\ annlist1 # <<>> /\ ~Get(options, "print_all", FALSE)
         IN  /\ doc' = Append(doc, [toklist |-> tl, checked |-> checked,
                                    annotations |-> anns])
             /\ IF ~checked
                THEN UNCHANGED <<offset, accumul, annlist>>
                ELSE /\ offset' = newoffset
                     /\ annlist' = IF format # "text" THEN annlist
                                   ELSE IF flush THEN <<>> ELSE annlist1
                     /\ accumul' =
                          CASE format = "text" ->
                                 Append(accumul,
                                        IF flush THEN <<txt, NL>> \o JoinLines(annlist1)
                                        ELSE <<txt>>)
                            [] format = "json" ->
                                 Append(accumul,
                                        <<[t |-> "json", original |-> cleaned.v,
                                           annotations |->
                                             JsonAnnotations(asorted, token_offsets,
                                                             len_tokens, newoffset)]>>)
                            [] format = "csv" -> accumul \o CsvUnits(asorted)
                            [] format = "m2" -> accumul \o M2Units(tl, asorted)
                            [] OTHER -> accumul
    /\ UNCHANGED <<options, accumstr, pc, quoteVars, streamVars, spliceVars>>

\* The sentence stream is exhausted: check_grammar builds its return value.
GrammarReturn ==
    /\ pc = "loop" /\ Get(options, "all_errors", TRUE)
    /\ accumstr' =
         IF Get(options, "print_all", TRUE)
         THEN Join(SP, accumul)
              \o (IF annlist # <<>> THEN <<NL>> \o JoinLines(annlist) ELSE <<>>)
         ELSE Join(NL, accumul)
    /\ pc' = "done"
    /\ UNCHANGED <<options, doc, offset, accumul, annlist,
                   quoteVars, streamVars, spliceVars>>

\* The strings check_spelling collects in allsum for one sentence.
SpellingUnits(format, tl) ==
    LET Line(tok) ==
          IF format = "csv"
          THEN IF tok.txt # ""
               THEN <<<<[t |-> "csv", kind |-> tok.kind, txt |-> tok.txt,
                         error |-> tok.error]>>>>
               ELSE IF tok.kind = "S_END" THEN <<<<[t |-> "csv-end"]>>>> ELSE <<>>
          ELSE IF format = "json"
               THEN <<<<[t |-> "json", k |-> tok.kind, txt |-> tok.txt,
                         e |-> tok.error]>>>>
               ELSE <<>>
    IN  Concat([i \in 1..Len(tl) |-> Line(tl[i])])

\* One iteration of the loop of check_spelling over the sentence stream.
SpellingSentence ==
    /\ pc = "loop" /\ ~Get(options, "all_errors", TRUE)
    /\ Len(doc) < MaxSents
    /\ \E n \in 1..MaxDocWords : \E errs \in SUBSET (1..n) :
         LET tl == DocSentence(Len(doc) + 1, n, errs)
             format == Get(options, "format", "json")
             annotations == Get(options, "annotations", FALSE)
             print_all == Get(options, "print_all", FALSE)
             txt == detokenize(tl)
             errors == SelectSeq(tl, LAMBDA tok : tok.error # "")
             annlist1 == IF annotations
                         THEN annlist \o [i \in 1..Len(errors) |-> AnnStr(errors[i].error)]
                         ELSE annlist
             flush == annotations /\ annlist1 # <<>> /\ ~print_all
         IN  /\ doc' = Append(doc, [toklist |-> tl, checked |-> TRUE,
                                    annotations |-> <<>>])
             /\ IF format = "text"
                THEN /\ annlist' = IF flush THEN <<>> ELSE annlist1
                     /\ accumul' = Append(accumul,
                                          IF flush THEN <<txt, NL>> \o JoinLines(annlist1)
                                          ELSE <<txt>>)
                ELSE /\ annlist' = annlist
                     /\ accumul' = accumul \o SpellingUnits(format, tl)
    /\ UNCHANGED <<options, offset, accumstr, pc, quoteVars, streamVars, spliceVars>>

\* The sentence stream is exhausted: check_spelling builds its return value.
SpellingReturn ==
    /\ pc = "loop" /\ ~Get(options, "all_errors", TRUE)
    /\ accumstr' =
         IF Get(options, "print_all", FALSE)
         THEN Join(SP, accumul)
              \o (IF annlist # <<>> THEN <<NL>> \o JoinLines(annlist) ELSE <<>>)
         ELSE Join(NL, accumul)
    /\ pc' = "done"
    /\ UNCHANGED <<options, doc, offset, accumul, annlist,
                   quoteVars, streamVars, spliceVars>>

(***************************************************************************)
(* Specifications of quote, sentence_stream and the splicing loop.         *)
(***************************************************************************)
IdleDoc ==
    /\ options = <<>> /\ doc = <<>> /\ offset = 0 /\ accumul = <<>>
    /\ annlist = <<>> /\ accumstr = <<>> /\ pc = "idle"

InitQuote == InitQuoteVars /\ IdleStream /\ IdleSplice /\ IdleDoc
NextQuote == CallQuote
SpecQuote == InitQuote /\ [][NextQuote]_vars

InitStream == IdleQuote /\ InitStreamVars /\ IdleSplice /\ IdleDoc
NextStream == NextToken \/ EndOfStream
SpecStream == InitStream /\ [][NextStream]_vars

InitSplice == IdleQuote /\ IdleStream /\ InitSpliceVars /\ IdleDoc
NextSplice == SortAnnotations \/ SpliceStep \/ SpliceDone
SpecSplice == InitSplice /\ [][NextSplice]_vars

\* check_errors on a document, with any options.
Init == IdleQuote /\ IdleStream /\ IdleSplice /\ InitDocVars
Next == GrammarSentence \/ GrammarReturn \/ SpellingSentence \/ SpellingReturn
Spec == Init /\ [][Next]_vars

\* check_grammar in the m2 format.
InitM2 == Init /\ options.all_errors /\ options.format = "m2" /\ ~options.annotations
NextM2 == GrammarSentence \/ GrammarReturn
SpecM2 == InitM2 /\ [][NextM2]_vars

(***************************************************************************)
(* Properties of sentence_stream.                                          *)
(***************************************************************************)
HasTerminator(sent) == sent # <<>> /\ sent[Len(sent)].kind \in END

\* C1: sentence_stream partitions the token stream.  The yielded sentences
\* followed by the accumulator are the tokens pulled so far, in order (so
\* at the end the yielded sentences concatenated are the whole input);
\* every yielded sentence is non-empty; a terminator token occurs only as
\* the last element of a sentence; and only the last yielded sentence may
\* lack a terminator, which happens only once the stream is exhausted.
StreamPartitions ==
    /\ ss_pc = "iter" => Concat(yielded) \o curr_sent = SubSeq(stream, 1, pos)
    /\ ss_pc = "done" => Concat(yielded) = stream
    /\ \A k \in 1..Len(yielded) :
         /\ yielded[k] # <<>>
         /\ \A i \in 1..(Len(yielded[k]) - 1) : yielded[k][i].kind \notin END
         /\ (k < Len(yielded) \/ ss_pc # "done") => HasTerminator(yielded[k])
    /\ \A i \in 1..Len(curr_sent) : curr_sent[i].kind \notin END

\* A stream that ends without a terminator after a complete sentence.
StreamPartitionsWitness ==
    /\ ss_pc = "done"
    /\ Len(yielded) >= 2
    /\ HasTerminator(yielded[1])
    /\ Len(yielded[1]) >= 2
    /\ ~HasTerminator(yielded[Len(yielded)])

(***************************************************************************)
(* Properties of quote.                                                    *)
(***************************************************************************)
\* Undo the escaping: a backslash stands for the character that follows it.
RECURSIVE Unescape(_)
Unescape(str) ==
    IF str = <<>> THEN <<>>
    ELSE IF Head(str) = BS /\ Len(str) >= 2
         THEN <<str[2]>> \o Unescape(SubSeq(str, 3, Len(str)))
         ELSE <<Head(str)>> \o Unescape(Tail(str))

\* C8: quote returns the two characters "" for an empty or absent string;
\* for a non-empty string the result starts and ends with a double quote,
\* unescaping its interior gives the string back, and no other non-empty
\* string has the same result.
QuoteRoundTrips ==
    quoted # NotYet =>
        IF s = NoneStr \/ s = <<>> THEN quoted = <<DQ, DQ>>
        ELSE /\ Len(quoted) >= 2
             /\ quoted[1] = DQ /\ quoted[Len(quoted)] = DQ
             /\ Unescape(SubSeq(quoted, 2, Len(quoted) - 1)) = s
             /\ \A s2 \in Strings \ {<<>>} : quote(s2) = quoted => s2 = s

\* quote has been applied to a string holding a backslash and a double quote.
QuoteRoundTripsWitness ==
    /\ quoted # NotYet /\ s # NoneStr
    /\ \E i, j \in 1..Len(s) : s[i] = BS /\ s[j] = DQ

(***************************************************************************)
(* Properties of the splicing loop.                                        *)
(***************************************************************************)
\* The list with every token's text as it was before the loop.
Pristine(l) == [i \in 1..Len(l) |-> [l[i] EXCEPT !.txt = l[i].original]]

NonOverlapping(l) ==
    \A i, j \in 1..Len(l) : i # j => (l[i].end < l[j].start \/ l[j].end < l[i].start)

RECURSIVE SumSpans(_)
\* The sum of (end - start) over the annotations of l that carry a suggest.
SumSpans(l) ==
    IF l = <<>> THEN 0
    ELSE (IF Head(l).suggest # None THEN Head(l).end - Head(l).start ELSE 0)
         + SumSpans(Tail(l))

\* The index-stable edit of the original list orig by the annotations l.
ReferenceEdit(orig, l) ==
    LET Suggesting == {i \in 1..Len(l) : l[i].suggest # None}
        Removed(t) == \E i \in Suggesting : l[i].start + 2 <= t.id /\ t.id <= l[i].end + 1
        Edited == [p \in 1..Len(orig) |->
                     IF \E i \in Suggesting : l[i].start + 1 = orig[p].id
                     THEN [orig[p] EXCEPT !.txt =
                             l[CHOOSE i \in Suggesting : l[i].start + 1 = orig[p].id].suggest]
                     ELSE orig[p]]
    IN  SelectSeq(Edited, LAMBDA t : ~Removed(t))

\* C2: for non-overlapping annotations whose suggest is absent or non-empty,
\* the working copy after the loop is the index-stable reference edit of the
\* original list, and the token count has dropped by the sum of (end - start)
\* over the annotations with a suggest.
SpliceIsReferenceEdit ==
    (/\ sp_pc = "done"
     /\ NonOverlapping(a)
     /\ \A i \in 1..Len(a) : a[i].suggest # "")
    => /\ cleantoklist = ReferenceEdit(Pristine(toklist), a)
       /\ Len(cleantoklist) = Len(toklist) - SumSpans(a)

\* A finished loop over a multi-token and a single-token suggestion.
SpliceIsReferenceEditWitness ==
    /\ sp_pc = "done" /\ NonOverlapping(a)
    /\ \E i, j \in 1..Len(a) :
         /\ a[i].suggest = "x" /\ a[i].end > a[i].start
         /\ a[j].suggest = "x" /\ a[j].end = a[j].start /\ a[j].start < a[i].start
    /\ Len(cleantoklist) = Len(toklist) - 1

ScenarioDone(anns) ==
    sp_pc = "done" /\ Pristine(toklist) = ScenarioSentence /\ a = anns

TextsOf(l) == {l[i].txt : i \in 1..Len(l)}

\* C4 as stated: with {start:2, end:2, suggest:"Spáni"} the spliced list has
\* "Spáni" at the position that held "Spánar", and "Ég", "fer", "til" remain.
ScenarioAsStated ==
    ScenarioDone(ScenarioAnnotations) =>
        /\ cleantoklist[5].txt = "Spáni"
        /\ {"Ég", "fer", "til"} \subseteq TextsOf(cleantoklist)

\* C4: with {start:2, end:2, suggest:"Spáni"} the spliced list has "Spáni" at
\* list position start + 1 = 3, the position that held "til", while "Ég",
\* "fer" and "Spánar" keep their positions and texts; the annotation
\* {start:3, end:3, suggest:"Spáni"} is the one that puts "Spáni" at the
\* position that held "Spánar" and keeps "Ég", "fer", "til".
ScenarioSplice ==
    /\ ScenarioDone(ScenarioAnnotations) =>
         [i \in 1..Len(cleantoklist) |-> cleantoklist[i].txt]
            = <<"", "Ég", "fer", "Spáni", "Spánar", "">>
    /\ ScenarioDone(ScenarioAnnotationsOnSpanar) =>
         [i \in 1..Len(cleantoklist) |-> cleantoklist[i].txt]
            = <<"", "Ég", "fer", "til", "Spáni", "">>

ScenarioSpliceWitness ==
    ScenarioDone(ScenarioAnnotations) /\ applied = <<"X">>

\* The loop is about to take annotation xann from arev.
Taking(xann) ==
    sp_pc = "loop" /\ Len(applied) < Len(arev) /\ xann = arev[Len(applied) + 1]

\* C9 as stated: an iteration for an annotation whose suggest is absent or
\* empty overwrites no text and deletes no token.
EmptySuggestChangesNothing ==
    [][\A xann \in {arev[i] : i \in 1..Len(arev)} :
        (Taking(xann) /\ xann.suggest \in {None, ""})
            => cleantoklist' = cleantoklist]_vars

\* C9: an iteration for an annotation whose suggest is absent changes neither
\* the working copy nor any token; an empty suggest is applied like any other:
\* the token at position start + 1 of the working copy gets the empty text
\* and, for end > start, the tokens at its positions start + 2 .. end + 1 are
\* deleted.
OnlyAbsentSuggestChangesNothing ==
    [][\A xann \in {arev[i] : i \in 1..Len(arev)} :
        /\ (Taking(xann) /\ xann.suggest = None)
             => cleantoklist' = cleantoklist /\ toklist' = toklist
        /\ (Taking(xann) /\ xann.suggest = "")
             => /\ cleantoklist'[xann.start + 2].txt = ""
                /\ xann.end > xann.start =>
                     Len(cleantoklist') = Len(cleantoklist)
                        - (Min(xann.end + 2, Len(cleantoklist))
                           - Min(xann.start + 2, Len(cleantoklist)))
                /\ \A i \in 1..Len(cleantoklist') :
                     i # xann.start + 2 =>
                        cleantoklist'[i] =
                          cleantoklist[IF i < xann.start + 2 THEN i
                                       ELSE i + Len(cleantoklist) - Len(cleantoklist')]]_vars

\* A finished loop in which an empty multi-token suggestion deleted a token
\* and an annotation without a suggest was passed over.
OnlyAbsentSuggestChangesNothingWitness ==
    /\ sp_pc = "done"
    /\ \E i, j \in 1..Len(a) :
         /\ a[i].suggest = "" /\ a[i].end > a[i].start
         /\ a[j].suggest = None
    /\ Len(cleantoklist) < Len(toklist)
    /\ \E i \in 1..Len(cleantoklist) :
         cleantoklist[i].kind = "WORD" /\ cleantoklist[i].txt = ""

Sorted == sp_pc \in {"loop", "done"}

\* C10 as stated: arev is exactly the reverse of a, whatever the keys.
ArevIsReverseOfA == Sorted => arev = Reverse(a)

\* The position in l of the annotation with code c.
IndexOf(l, c) == CHOOSE i \in 1..Len(l) : l[i].code = c

DistinctKeys(l) ==
    \A i, j \in 1..Len(l) :
        i # j => (l[i].start # l[j].start \/ l[i].end # l[j].end)

\* C10: arev holds the annotations of a in descending (start, end) order;
\* when no two annotations have equal (start, end) it is exactly the reverse
\* of a, and annotations with equal (start, end) keep in arev the relative
\* order they have in a.
ArevIsStableDescending ==
    Sorted =>
        /\ Len(arev) = Len(a)
        /\ {arev[i] : i \in 1..Len(arev)} = {a[i] : i \in 1..Len(a)}
        /\ \A i, j \in 1..Len(a) : i < j => ~KeyLess(a[j], a[i])
        /\ \A i, j \in 1..Len(arev) :
             i < j => /\ ~KeyLess(arev[i], arev[j])
                      /\ ~KeyLess(arev[j], arev[i]) =>
                            IndexOf(a, arev[i].code) < IndexOf(a, arev[j].code)
        /\ DistinctKeys(a) => arev = Reverse(a)

\* A sorted list of two annotations with equal (start, end): a tie, which
\* arev leaves in the order of a.
ArevIsStableDescendingWitness ==
    /\ Sorted /\ Len(a) = 2
    /\ a[1].start = a[2].start /\ a[1].end = a[2].end
    /\ a[1].end > a[1].start
    /\ arev = a /\ arev # Reverse(a)

\* The single-token annotations of l lying inside the span of mann.
SinglesInside(l, mann) ==
    {i \in 1..Len(l) :
        /\ l[i].end = l[i].start
        /\ mann.start <= l[i].start /\ l[i].end <= mann.end}

\* C11: whenever the loop has applied a multi-token annotation, every
\* single-token annotation inside its span, one that shares its start
\* included, was taken earlier in the iteration; so after the loop, for a
\* multi-token annotation with a suggest that only such single-token
\* annotations overlap, the surviving first token of the span holds its
\* suggestion.
SinglesHandledBeforeSpan ==
    Sorted =>
        \A m \in 1..Len(applied) :
            LET mann == a[IndexOf(a, applied[m])] IN
            mann.end > mann.start =>
                /\ \A i \in SinglesInside(a, mann) :
                     \E k \in 1..(m - 1) : applied[k] = a[i].code
                /\ (/\ sp_pc = "done"
                    /\ mann.suggest # None
                    /\ \A j \in 1..Len(a) :
                         \/ a[j] = mann
                         \/ j \in SinglesInside(a, mann)
                         \/ a[j].end < mann.start \/ mann.end < a[j].start)
                   => \E p \in 1..Len(cleantoklist) :
                        /\ cleantoklist[p].id = mann.start + 1
                        /\ cleantoklist[p].txt = mann.suggest

(***************************************************************************)
(* Properties of the output of check_grammar and check_spelling.           *)
(***************************************************************************)
\* str.split(sep): the pieces of str between the occurrences of atom sep.
RECURSIVE SplitOn(_, _)
SplitOn(str, sep) ==
    IF \A i \in 1..Len(str) : str[i] # sep THEN <<str>>
    ELSE LET first == CHOOSE i \in 1..Len(str) :
                        str[i] = sep /\ \A j \in 1..(i - 1) : str[j] # sep
         IN  <<SubSeq(str, 1, first - 1)>>
             \o SplitOn(SubSeq(str, first + 1, Len(str)), sep)

Lines(str) == SplitOn(str, NL)

Format == Get(options, "format", "json")
AllErrors == Get(options, "all_errors", TRUE)
PrintAllGiven == "print_all" \in DOMAIN options

\* The sentences for which output is produced: all but those for which the
\* checker returned no result.
Processed(d) == SelectSeq(d, LAMBDA sn : sn.checked)

\* The characters of the source before the token at list position p of the
\* k-th sentence, all tokens of the document laid out from offset 0.
SourceOffset(k, p) ==
    TotalLen(Concat([j \in 1..(k - 1) |-> doc[j].toklist]))
    + TotalLen(SubSeq(doc[k].toklist, 1, p))

\* C3: in json format, for every annotation of a checked sentence,
\* [start_char, end_char] is the range of source characters of the tokens at
\* list positions start+1 .. end+1 of that sentence.
JsonSpansCoverAnnotatedTokens ==
    (/\ AllErrors /\ Format = "json" /\ pc = "loop"
     /\ doc # <<>> /\ doc[Len(doc)].checked)
    => LET rec == accumul[Len(accumul)][1]
           k == Len(doc)
       IN  \A i \in 1..Len(rec.annotations) :
             LET ann == rec.annotations[i] IN
               /\ ann.start_char = SourceOffset(k, ann.start + 1)
               /\ ann.end_char = SourceOffset(k, ann.end + 2) - 1

\* The text of a sentence: the non-empty source texts of its tokens.
SourceText(sn) ==
    SelectSeq([i \in 1..Len(sn.toklist) |-> sn.toklist[i].original],
              LAMBDA x : x # "")

\* The text of a sentence with the suggestions of its annotations applied.
CorrectedText(sn) ==
    detokenize(Splice(sn.toklist, sorted(sorted(sn.annotations, FALSE), TRUE))).v

\* units is the m2 block of sentence sn with stext on its S line: the S
\* line, one A line per annotation in ascending (start, end) order, and an
\* empty string.
IsM2Block(units, sn, stext) ==
    LET n == Len(sn.annotations) IN
    /\ Len(units) = n + 2
    /\ units[1] = <<[t |-> "S", v |-> stext]>>
    /\ \A i \in 1..n : Len(units[i + 1]) = 1 /\ units[i + 1][1].t = "A"
    /\ {units[i + 1][1] : i \in 1..n}
         = {[t |-> "A", start |-> sn.annotations[i].start,
             end |-> sn.annotations[i].end, code |-> sn.annotations[i].code,
             suggest |-> sn.annotations[i].suggest] : i \in 1..n}
    /\ \A i, j \in 1..n : i < j => ~KeyLess(units[j + 1][1], units[i + 1][1])
    /\ units[n + 2] = <<>>

\* units is the sequence of the m2 blocks of the sentences sents, in order.
RECURSIVE M2Blocks(_, _, _)
M2Blocks(units, sents, corrected) ==
    IF sents = <<>> THEN units = <<>>
    ELSE LET sn == Head(sents)
             n == Len(sn.annotations)
         IN  /\ Len(units) >= n + 2
             /\ IsM2Block(SubSeq(units, 1, n + 2), sn,
                          IF corrected THEN CorrectedText(sn) ELSE SourceText(sn))
             /\ M2Blocks(SubSeq(units, n + 3, Len(units)), Tail(sents), corrected)

M2Done == AllErrors /\ Format = "m2" /\ pc = "done"

JsonCsvNewlineJoined ==
    (pc = "done" /\ Format \in {"json", "csv"}) =>
        /\ \A i \in 1..Len(accumstr) : accumstr[i] # SP
        /\ accumul # <<>> => Lines(accumstr) = accumul

\* The display strings of the annotations (check_grammar) or token errors
\* (check_spelling) of a sentence.
DisplayStrings(sn) ==
    IF AllErrors
    THEN {AnnStr(sn.annotations[i].code) : i \in 1..Len(sn.annotations)}
    ELSE {AnnStr(sn.toklist[i].error) :
            i \in {j \in 1..Len(sn.toklist) : sn.toklist[j].error # ""}}

\* The position in str of its k-th text atom: the text of the k-th
\* processed sentence.
TextPos(str, k) ==
    CHOOSE p \in 1..Len(str) :
        /\ str[p].t = "text"
        /\ Cardinality({q \in 1..p : str[q].t = "text"}) = k

\* The positions in str of the atom d.
Occurrences(str, d) == {p \in 1..Len(str) : str[p] = d}

\* The atom at position p of str is a line of its own.
OwnLine(str, p) ==
    /\ p = 1 \/ str[p - 1] = NL
    /\ p = Len(str) \/ str[p + 1] = NL

\* C7: in text format with annotation echoing, every display string of every
\* processed sentence occurs exactly once in the output, as a line of its
\* own; unless print_all is active the lines of a sentence come directly
\* beneath its text and before the text of any later sentence; when it is
\* active they all come after the text of the last sentence, in document
\* order.
AnnotationsOnOwnLines ==
    (pc = "done" /\ Format = "text" /\ Get(options, "annotations", FALSE))
    => LET sents == Processed(doc)
           N == Len(sents)
           Pos(d) == CHOOSE p \in Occurrences(accumstr, d) : TRUE
       IN  \A k \in 1..N : \A d \in DisplayStrings(sents[k]) :
             /\ Cardinality(Occurrences(accumstr, d)) = 1
             /\ OwnLine(accumstr, Pos(d))
             /\ IF PrintAllGiven /\ options.print_all
                THEN /\ TextPos(accumstr, N) < Pos(d)
                     /\ \A k2 \in (k + 1)..N : \A d2 \in DisplayStrings(sents[k2]) :
                          Pos(d) < Pos(d2)
                ELSE /\ TextPos(accumstr, k) < Pos(d)
                     /\ \A q \in (TextPos(accumstr, k) + 1)..(Pos(d) - 1) :
                          accumstr[q] = NL \/ accumstr[q] \in DisplayStrings(sents[k])
                     /\ k < N => Pos(d) < TextPos(accumstr, k + 1)

====
